---- MODULE Spec2Model ----
(***************************************************************************)
(* Model of the DQN transaction-timing agent, backend/rl/agents/dqn.py:    *)
(* DQNConfig, ReplayBuffer, DuelingQNetwork and DQNAgent.                  *)
(*                                                                         *)
(* Floats are fixed-point integers in units of 1/Scale, rounded to nearest *)
(* (ties to even) after every multiplication and division, plus the one    *)
(* non-finite value NaN.  A weight tensor of shape <<rows, cols>> is kept  *)
(* as one number per row (all entries of a row equal); biases and the      *)
(* LayerNorm affine parameters are left out, their shapes being fixed by   *)
(* the weight shapes.  The backward pass and the Adam step are library     *)
(* code: the step moves every weight by a gradient-sign amount the model   *)
(* chooses freely, and turns every weight into NaN when the loss is NaN.   *)
(***************************************************************************)
EXTENDS Integers, Sequences, FiniteSets, TLC

VARIABLES
    config,           \* self.config: the DQNConfig record
    state_dim,        \* self.state_dim
    action_dim,       \* self.action_dim
    policy_net,       \* self.policy_net.state_dict(): key -> [shape, data]
    target_net,       \* self.target_net.state_dict()
    optimizer,        \* self.optimizer.state_dict(), abstracted
    replay_buffer,    \* self.replay_buffer.buffer: the deque, oldest first
    epsilon,          \* self.epsilon
    training_steps,   \* self.training_steps
    episode_count,    \* self.episode_count
    losses,           \* self.losses
    rewards_history,  \* self.rewards_history
    epsilon_history,  \* self.epsilon_history
    disk,             \* the artifact at the checkpoint path
    op,               \* the operation that ran last
    ret,              \* what it returned or raised
    pushed,           \* history: every transition pushed since construction
    saved,            \* history: the agent as it was at the last save()
    constructed,      \* history: the number of constructor calls so far
    budget,           \* the calls the environment has left for the agent in hand
    drivers           \* the threads that call the agent at the same time

vars == <<config, state_dim, action_dim, policy_net, target_net, optimizer,
          replay_buffer, epsilon, training_steps, episode_count, losses,
          rewards_history, epsilon_history, disk, op, ret, pushed, saved,
          constructed, budget, drivers>>

agentVars == <<config, state_dim, action_dim, policy_net, target_net,
               optimizer, replay_buffer, epsilon, training_steps,
               episode_count, losses, rewards_history, epsilon_history>>

-----------------------------------------------------------------------------
(* Bounds of the model *)

\* fixed-point resolution: the float 1.0 is Scale
Scale == 4
\* store_transition calls, and train_step calls that train, of an agent that
\* only trains
MaxPush == 3
MaxSteps == 2
\* the same, and end_episode calls, of an agent that is also saved and loaded
LifePush == 1
LifeSteps == 1
LifeEpisodes == 1
\* the same of an agent whose buffer is sampled and whose actions are queried
UsePush == 2
UseSteps == 1
\* train_step calls of each of the drivers that call at the same time
RaceCalls == 1
\* end_episode calls of an agent whose metrics are read
MetricsEpisodes == 2
\* a length the histories are claimed to stay within, below MetricsEpisodes
HistoryBound == 1

-----------------------------------------------------------------------------
(* Float arithmetic *)

\* the float NaN: a value outside every finite range the model reaches
NaN == -1000000

IsNaN(x) == x = NaN

Abs(x) == IF x < 0 THEN -x ELSE x

Min(a, b) == IF a <= b THEN a ELSE b

\* n / d rounded to the nearest integer, ties to the even one (d > 0)
RoundDiv(n, d) ==
    LET q == n \div d
        r == n % d
    IN  IF 2 * r < d THEN q
        ELSE IF 2 * r > d THEN q + 1
        ELSE IF q % 2 = 0 THEN q ELSE q + 1

FAdd(a, b) == IF IsNaN(a) \/ IsNaN(b) THEN NaN ELSE a + b

FSub(a, b) == IF IsNaN(a) \/ IsNaN(b) THEN NaN ELSE a - b

FMul(a, b) == IF IsNaN(a) \/ IsNaN(b) THEN NaN ELSE RoundDiv(a * b, Scale)

\* Python's max(a, b): b only when b > a, and no comparison with NaN is true
PyMax(a, b) == IF ~IsNaN(a) /\ ~IsNaN(b) /\ b > a THEN b ELSE a

RECURSIVE FSum(_)
FSum(s) == IF s = <<>> THEN 0 ELSE FAdd(Head(s), FSum(Tail(s)))

\* tensor.mean(): the mean of an empty tensor is NaN
FMean(s) ==
    IF s = <<>> \/ IsNaN(FSum(s)) THEN NaN ELSE RoundDiv(FSum(s), Len(s))

ReLU(x) == IF IsNaN(x) THEN NaN ELSE IF x > 0 THEN x ELSE 0

-----------------------------------------------------------------------------
(* DuelingQNetwork *)

\* hidden_sizes[-1]
LastSize(hs) == hs[Len(hs)]

\* prev_size when the loop over hidden_sizes[:-1] ends
PrevSize(D, hs) == IF Len(hs) > 1 THEN hs[Len(hs) - 1] ELSE D

\* the Linear layers of self.features sit at indices 0, 3, 6, ... of the
\* Sequential (Linear, ReLU, LayerNorm per hidden size but the last)
FeatureKeys(hs) == {<<"features", 3 * (i - 1)>> : i \in 1..(Len(hs) - 1)}

HeadKeys(dueling) ==
    IF dueling
    THEN {<<"value_stream", 0>>, <<"value_stream", 2>>,
          <<"advantage_stream", 0>>, <<"advantage_stream", 2>>}
    ELSE {<<"q_layer", 0>>, <<"q_layer", 2>>}

NetKeys(hs, dueling) == FeatureKeys(hs) \cup HeadKeys(dueling)

\* weight shape <<out_features, in_features>> of the Linear layer at key k
LayerShape(D, A, hs, k) ==
    IF k[1] = "features"
    THEN LET i == (k[2] \div 3) + 1
         IN  <<hs[i], IF i = 1 THEN D ELSE hs[i - 1]>>
    ELSE IF k[2] = 0 THEN <<LastSize(hs), PrevSize(D, hs)>>
    ELSE IF k[1] = "value_stream" THEN <<1, LastSize(hs)>>
    ELSE <<A, LastSize(hs)>>

\* torch refuses a tensor with a negative dimension; hidden_sizes[-1] of an
\* empty list is an IndexError
CanBuildNetwork(D, A, hs) ==
    /\ Len(hs) >= 1
    /\ D >= 0
    /\ A >= 0
    /\ \A i \in 1..Len(hs) : hs[i] >= 0

\* the random initial value of row r of a layer, for a seed
InitWeight(seed, r) == seed + r - 1

\* DuelingQNetwork(state_dim, action_dim, hidden_sizes, dueling).state_dict()
DuelingQNetwork(D, A, hs, dueling, seed) ==
    [k \in NetKeys(hs, dueling) |->
        LET shape == LayerShape(D, A, hs, k)
        IN  [shape |-> shape,
             data  |-> [r \in 1..shape[1] |-> InitWeight(seed, r)]]]

\* nn.Linear without bias, one number per weight row, then ReLU or not
Linear(layer, x) ==
    LET sx == FSum(x)
    IN  [r \in 1..Len(layer.data) |-> FMul(layer.data[r], sx)]

LinearReLU(layer, x) ==
    LET sx == FSum(x)
    IN  [r \in 1..Len(layer.data) |-> ReLU(FMul(layer.data[r], sx))]

\* self.features(x): layer i of the trunk applied to the output of layer i-1
RECURSIVE Features(_, _, _)
Features(net, n, x) ==
    IF n = 0 THEN x
    ELSE LinearReLU(net[<<"features", 3 * (n - 1)>>], Features(net, n - 1, x))

\* a stream: Linear, ReLU, Linear
Stream(net, name, feats) ==
    Linear(net[<<name, 2>>], LinearReLU(net[<<name, 0>>], feats))

\* (mutant) the advantages are added without subtracting their mean
DuelingCombineNoMean(value, advantage) ==
    [a \in 1..Len(advantage) |-> FAdd(value[1], advantage[a])]

\* Q = V + (A - mean(A))
DuelingCombine(value, advantage) ==
    LET mean == FMean(advantage)
    IN  [a \in 1..Len(advantage) |->
            FAdd(value[1], FSub(advantage[a], mean))]

\* DuelingQNetwork.forward for one state x; the Q-value of action a is at a+1
Forward(net, hs, dueling, x) ==
    LET feats == Features(net, Len(hs) - 1, x)
    IN  IF dueling
        THEN DuelingCombine(Stream(net, "value_stream", feats),
                            Stream(net, "advantage_stream", feats))
        ELSE Stream(net, "q_layer", feats)

\* tensor.argmax: the first maximal value, a NaN counting as maximal;
\* 0-based.  Not defined on an empty tensor.
Argmax(q) ==
    LET nans == {i \in 1..Len(q) : IsNaN(q[i])}
        best == {i \in 1..Len(q) : \A j \in 1..Len(q) : q[j] <= q[i]}
        pick(S) == CHOOSE i \in S : \A j \in S : i <= j
    IN  (IF nans # {} THEN pick(nans) ELSE pick(best)) - 1

-----------------------------------------------------------------------------
(* ReplayBuffer *)

\* a (state, action, reward, next_state, done) tuple
Transition(state, action, reward, next_state, done) ==
    [state |-> state, action |-> action, reward |-> reward,
     next_state |-> next_state, done |-> done]

\* ReplayBuffer(capacity): deque(maxlen=capacity), which refuses a negative maxlen
CanBuildBuffer(capacity) == capacity >= 0

ReplayBuffer(capacity) == [maxlen |-> capacity, buffer |-> <<>>]

\* (mutant) a full deque refuses the new item instead of dropping its oldest
DequeAppendKeepsOldest(maxlen, items, x) ==
    IF Len(items) >= maxlen THEN items ELSE Append(items, x)

\* deque.append under maxlen: a full deque drops its leftmost item, a deque of
\* maxlen 0 stays empty
DequeAppend(maxlen, items, x) ==
    IF maxlen = 0 THEN items
    ELSE IF Len(items) >= maxlen THEN Append(Tail(items), x)
    ELSE Append(items, x)

\* ReplayBuffer.push
Push(rb, t) == [rb EXCEPT !.buffer = DequeAppend(rb.maxlen, rb.buffer, t)]

\* ReplayBuffer.__len__
BufLen(rb) == Len(rb.buffer)

\* random.sample(population, k) raises ValueError unless 0 <= k <= len
SampleFails(n, k) == ~(0 <= k /\ k <= n)

\* (mutant) positions drawn with replacement
SamplePositionsWithRepeats(n, k) == [1..k -> 1..n]

\* the position lists random.sample may draw: k distinct positions of 1..n
SamplePositions(n, k) ==
    {p \in [1..k -> 1..n] : \A i, j \in 1..k : i # j => p[i] # p[j]}

\* the batch at the drawn positions
BatchAt(rb, p) == [i \in 1..Len(p) |-> rb.buffer[p[i]]]

-----------------------------------------------------------------------------
(* Results of an operation *)

RetNone == [kind |-> "None", val |-> 0, err |-> ""]

RetLoss(v) == [kind |-> "loss", val |-> v, err |-> ""]

Raised(e) == [kind |-> "raised", val |-> 0, err |-> e]

Called(name, path) == [name |-> name, path |-> path]

-----------------------------------------------------------------------------
(* DQNAgent.train_step, the pure parts *)

\* Q-values of a network of this agent
QValues(net, cfg, x) == Forward(net, cfg.hidden_sizes, cfg.dueling, x)

\* current_q of one transition: policy_net(states).gather(1, actions)
CurrentQ(pnet, cfg, t) == QValues(pnet, cfg, t.state)[t.action + 1]

\* Double DQN: the policy net selects the next action, the target net values it
NextQ(pnet, tnet, cfg, t) ==
    LET next_action == Argmax(QValues(pnet, cfg, t.next_state))
    IN  QValues(tnet, cfg, t.next_state)[next_action + 1]

\* rewards + (1 - dones) * gamma * next_q
TargetQ(pnet, tnet, cfg, t) ==
    FAdd(t.reward,
         FMul(FMul(IF t.done THEN 0 ELSE Scale, cfg.gamma),
              NextQ(pnet, tnet, cfg, t)))

\* one element of F.smooth_l1_loss (beta = 1): 0.5 d^2 if |d| < 1 else |d| - 0.5
SmoothL1(x, y) ==
    IF IsNaN(x) \/ IsNaN(y) THEN NaN
    ELSE LET d == Abs(x - y)
         IN  IF d < Scale THEN RoundDiv(d * d, 2 * Scale)
             ELSE RoundDiv(2 * d - Scale, 2)

\* loss = F.smooth_l1_loss(current_q, target_q), the mean over the batch
BatchLoss(pnet, tnet, cfg, batch) ==
    FMean([i \in 1..Len(batch) |->
              SmoothL1(CurrentQ(pnet, cfg, batch[i]),
                       TargetQ(pnet, tnet, cfg, batch[i]))])

\* the forward pass of train_step indexes the Q-vectors by action: with no
\* action (action_dim = 0) gather and argmax raise
CanIndexActions(A, batch) ==
    \A i \in 1..Len(batch) : 0 <= batch[i].action /\ batch[i].action < A

\* loss.backward(), clip_grad_norm_, optimizer.step(): every weight moves by
\* g; a NaN loss gives NaN gradients and the clip spreads them to all weights
OptimizerStepNet(net, loss, g) ==
    [k \in DOMAIN net |->
        [net[k] EXCEPT !.data =
            [r \in 1..Len(net[k].data) |->
                IF IsNaN(loss) THEN NaN ELSE FAdd(net[k].data[r], g)]]]

OptimizerStepState(opt, loss, g) ==
    [opt EXCEPT !.step = opt.step + 1,
                !.exp_avg = IF IsNaN(loss) THEN NaN ELSE g]

\* (mutant) the target jumps past the policy value by their distance
SoftUpdateParamOvershoots(tau, target_param, policy_param) ==
    FAdd(policy_param, FSub(policy_param, target_param))

\* (mutant) the two weights of the blend exchanged
SoftUpdateParamSwapped(tau, target_param, policy_param) ==
    FAdd(FMul(tau, target_param), FMul(Scale - tau, policy_param))

\* tau * policy_param + (1 - tau) * target_param
SoftUpdateParam(tau, target_param, policy_param) ==
    FAdd(FMul(tau, policy_param), FMul(Scale - tau, target_param))

\* (mutant) a hard copy of the policy weights
SoftUpdateTargetHardCopy(tau, tnet, pnet) == pnet

\* DQNAgent._soft_update_target
SoftUpdateTarget(tau, tnet, pnet) ==
    [k \in DOMAIN tnet |->
        [tnet[k] EXCEPT !.data =
            [r \in 1..Len(tnet[k].data) |->
                SoftUpdateParam(tau, tnet[k].data[r], pnet[k].data[r])]]]

\* (mutant) the target update is never due
TargetUpdateNever(steps, freq) == FALSE

\* (mutant) the guard compares with batch_size
IsColdByBatchSize(rb, cfg) == BufLen(rb) < cfg.batch_size

\* (mutant) the guard is off by one
IsColdOffByOne(rb, cfg) == BufLen(rb) + 1 < cfg.min_buffer_size

\* the guard of train_step: not enough samples yet
IsCold(rb, cfg) == BufLen(rb) < cfg.min_buffer_size

\* training_steps % target_update_freq == 0
TargetUpdateDue(steps, freq) == steps % freq = 0

\* (mutant) epsilon is left as it is
DecayEpsilonKeeps(eps, cfg) == eps

\* max(epsilon_end, epsilon * epsilon_decay)
DecayEpsilon(eps, cfg) == PyMax(cfg.epsilon_end, FMul(eps, cfg.epsilon_decay))

-----------------------------------------------------------------------------
(* DQNConfig and DQNAgent.__init__ *)

\* the DQNConfig fields the agent reads (learning_rate and gradient_clip only
\* parameterize the library step)
DQNConfig(hs, duel, gamma, batch, cap, e0, e1, decay, freq, tau, min_buf) ==
    [hidden_sizes |-> hs, dueling |-> duel, gamma |-> gamma,
     batch_size |-> batch, buffer_size |-> cap,
     epsilon_start |-> e0, epsilon_end |-> e1,
     epsilon_decay |-> decay, target_update_freq |-> freq, tau |-> tau,
     min_buffer_size |-> min_buf]

\* __init__ validates nothing itself: it fails only where torch or deque do
CanConstruct(cfg, D, A) ==
    /\ CanBuildNetwork(D, A, cfg.hidden_sizes)
    /\ CanBuildBuffer(cfg.buffer_size)

\* optim.Adam(self.policy_net.parameters()): one parameter group
Adam(net) == [params |-> Cardinality(DOMAIN net), step |-> 0, exp_avg |-> 0]

\* the fields of a DQNAgent right after __init__
NewAgent(cfg, D, A, seed) ==
    LET net == DuelingQNetwork(D, A, cfg.hidden_sizes, cfg.dueling, seed)
    IN  [config |-> cfg, state_dim |-> D, action_dim |-> A,
         policy_net |-> net,
         target_net |-> net,
         optimizer |-> Adam(net),
         replay_buffer |-> ReplayBuffer(cfg.buffer_size),
         epsilon |-> cfg.epsilon_start,
         training_steps |-> 0,
         episode_count |-> 0,
         losses |-> <<>>, rewards_history |-> <<>>, epsilon_history |-> <<>>]

\* the agent as a record of its fields
Agent ==
    [config |-> config, state_dim |-> state_dim, action_dim |-> action_dim,
     policy_net |-> policy_net, target_net |-> target_net,
     optimizer |-> optimizer, replay_buffer |-> replay_buffer,
     epsilon |-> epsilon, training_steps |-> training_steps,
     episode_count |-> episode_count, losses |-> losses,
     rewards_history |-> rewards_history,
     epsilon_history |-> epsilon_history]

-----------------------------------------------------------------------------
(* Checkpoints *)

NoFile == [kind |-> "absent"]

\* a file torch.load cannot unpickle
CorruptFile == [kind |-> "corrupt"]

\* (mutant) the policy weights saved under both network keys
CheckpointPolicyTwice ==
    [kind |-> "checkpoint",
     policy_net |-> policy_net,
     target_net |-> policy_net,
     optimizer |-> optimizer,
     epsilon |-> epsilon,
     training_steps |-> training_steps,
     episode_count |-> episode_count,
     config |-> config]

\* the dict save() hands to torch.save
Checkpoint ==
    [kind |-> "checkpoint",
     policy_net |-> policy_net,
     target_net |-> target_net,
     optimizer |-> optimizer,
     epsilon |-> epsilon,
     training_steps |-> training_steps,
     episode_count |-> episode_count,
     config |-> config]

\* the paths load() is given: the one save() writes, and one holding garbage
Paths == {"agent.pt", "garbage.pt"}

FileAt(path) == IF path = "agent.pt" THEN disk ELSE CorruptFile

\* Module.load_state_dict(sd), strict: every tensor whose key and shape match
\* is copied; a missing or unexpected key or a shape mismatch is reported once
\* all keys are done
\* (mutant) only the keys are compared, not the shapes
StateDictErrorsKeysOnly(net, sd) == DOMAIN net # DOMAIN sd

StateDictErrors(net, sd) ==
    \/ DOMAIN net # DOMAIN sd
    \/ \E k \in DOMAIN net \cap DOMAIN sd : net[k].shape # sd[k].shape

LoadStateDict(net, sd) ==
    [k \in DOMAIN net |->
        IF k \in DOMAIN sd /\ net[k].shape = sd[k].shape THEN sd[k] ELSE net[k]]

\* Optimizer.load_state_dict refuses a group with another number of parameters
OptimizerErrors(opt, sd) == opt.params # sd.params

-----------------------------------------------------------------------------
(* Initial states: a first agent, constructed with one of the argument lists *)

\* one driver calls the agent, one call after the other
NoDrivers == [mode |-> "single"]

InitWith(ctors, b) ==
    \E c \in ctors :
        LET a == NewAgent(c.cfg, c.D, c.A, c.seed)
        IN  /\ CanConstruct(c.cfg, c.D, c.A)
            /\ config = a.config
            /\ state_dim = a.state_dim
            /\ action_dim = a.action_dim
            /\ policy_net = a.policy_net
            /\ target_net = a.target_net
            /\ optimizer = a.optimizer
            /\ replay_buffer = a.replay_buffer
            /\ epsilon = a.epsilon
            /\ training_steps = a.training_steps
            /\ episode_count = a.episode_count
            /\ losses = a.losses
            /\ rewards_history = a.rewards_history
            /\ epsilon_history = a.epsilon_history
            /\ disk = NoFile
            /\ op = Called("__init__", "")
            /\ ret = RetNone
            /\ pushed = <<>>
            /\ saved = [valid |-> FALSE, agent |-> a]
            /\ constructed = 1
            /\ budget = b
            /\ drivers = NoDrivers

-----------------------------------------------------------------------------
(* Operations *)

\* the calls the environment has left when it drops the agent in hand
Remaining ==
    [budget EXCEPT !.pushes = budget.pushes - Len(pushed),
                   !.steps = budget.steps - Len(losses),
                   !.episodes = budget.episodes - Len(rewards_history)]

\* DQNAgent(state_dim, action_dim, config): a new agent replaces the one in
\* hand; the files stay.  A failed construction leaves the old agent.
Construct(cfg, D, A, seed) ==
    /\ op' = Called("__init__", "")
    /\ constructed' = constructed + 1
    /\ UNCHANGED <<disk, saved>>
    /\ IF CanConstruct(cfg, D, A)
       THEN LET a == NewAgent(cfg, D, A, seed)
            IN  /\ config' = a.config
                /\ state_dim' = a.state_dim
                /\ action_dim' = a.action_dim
                /\ policy_net' = a.policy_net
                /\ target_net' = a.target_net
                /\ optimizer' = a.optimizer
                /\ replay_buffer' = a.replay_buffer
                /\ epsilon' = a.epsilon
                /\ training_steps' = a.training_steps
                /\ episode_count' = a.episode_count
                /\ losses' = a.losses
                /\ rewards_history' = a.rewards_history
                /\ epsilon_history' = a.epsilon_history
                /\ pushed' = <<>>
                /\ budget' = Remaining
                /\ ret' = RetNone
       ELSE /\ ret' = Raised("ConstructionError")
            /\ UNCHANGED agentVars
            /\ UNCHANGED <<pushed, budget>>

\* DQNAgent.store_transition
StoreTransition(t) ==
    /\ replay_buffer' = Push(replay_buffer, t)
    /\ pushed' = Append(pushed, t)
    /\ op' = Called("store_transition", "")
    /\ ret' = RetNone
    /\ UNCHANGED <<config, state_dim, action_dim, policy_net, target_net,
                   optimizer, epsilon, training_steps, episode_count, losses,
                   rewards_history, epsilon_history, disk, saved,
                   constructed, budget>>

\* (mutant) the end of an episode also decays epsilon
EndEpisodeDecays(total_reward) ==
    /\ episode_count' = episode_count + 1
    /\ rewards_history' = Append(rewards_history, total_reward)
    /\ epsilon' = DecayEpsilon(epsilon, config)
    /\ op' = Called("end_episode", "")
    /\ ret' = RetNone
    /\ UNCHANGED <<config, state_dim, action_dim, policy_net, target_net,
                   optimizer, replay_buffer, training_steps, losses,
                   epsilon_history, disk, pushed, saved, constructed,
                   budget>>

\* (mutant) the episode counter counts down
EndEpisodeCountsDown(total_reward) ==
    /\ episode_count' = episode_count - 1
    /\ rewards_history' = Append(rewards_history, total_reward)
    /\ op' = Called("end_episode", "")
    /\ ret' = RetNone
    /\ UNCHANGED <<config, state_dim, action_dim, policy_net, target_net,
                   optimizer, replay_buffer, epsilon, training_steps, losses,
                   epsilon_history, disk, pushed, saved, constructed,
                   budget>>

\* DQNAgent.end_episode
EndEpisode(total_reward) ==
    /\ episode_count' = episode_count + 1
    /\ rewards_history' = Append(rewards_history, total_reward)
    /\ op' = Called("end_episode", "")
    /\ ret' = RetNone
    /\ UNCHANGED <<config, state_dim, action_dim, policy_net, target_net,
                   optimizer, replay_buffer, epsilon, training_steps, losses,
                   epsilon_history, disk, pushed, saved, constructed,
                   budget>>

\* the amounts one optimizer step may move the weights by
GradSteps == {-1, 1}

\* train_step raising e before anything was assigned
TrainStepRaises(e) ==
    /\ ret' = Raised(e)
    /\ UNCHANGED <<agentVars, disk, pushed, saved, constructed, budget>>

\* train_step from the optimizer step on, for the loss of the batch drawn and
\* the step g
TrainOnBatch(loss, g) ==
    \E pnet \in {OptimizerStepNet(policy_net, loss, g)},
       steps \in {training_steps + 1} :
        /\ policy_net' = pnet
        /\ optimizer' = OptimizerStepState(optimizer, loss, g)
        /\ training_steps' = steps
        /\ losses' = Append(losses, loss)
        /\ IF config.target_update_freq = 0
           THEN \* steps % 0: ZeroDivisionError, after the assignments above
                /\ ret' = Raised("ZeroDivisionError")
                /\ UNCHANGED <<target_net, epsilon, epsilon_history>>
           ELSE /\ target_net' =
                      IF TargetUpdateDue(steps, config.target_update_freq)
                      THEN SoftUpdateTarget(config.tau, target_net, pnet)
                      ELSE target_net
                /\ epsilon' = DecayEpsilon(epsilon, config)
                /\ epsilon_history' = Append(epsilon_history, epsilon')
                /\ ret' = RetLoss(loss)
        /\ UNCHANGED <<config, state_dim, action_dim, replay_buffer,
                       episode_count, rewards_history, disk, pushed, saved,
                       constructed, budget>>

\* DQNAgent.train_step
TrainStep ==
    /\ op' = Called("train_step", "")
    /\ IF IsCold(replay_buffer, config)
       THEN /\ ret' = RetNone
            /\ UNCHANGED <<agentVars, disk, pushed, saved, constructed, budget>>
       ELSE IF SampleFails(BufLen(replay_buffer), config.batch_size)
       THEN TrainStepRaises(IF config.batch_size < 0 THEN "NegativeSample"
                            ELSE "InsufficientSamples")
       ELSE IF config.batch_size = 0
       THEN \* zip(*[]) yields nothing to unpack into the five names
            TrainStepRaises("EmptyBatch")
       ELSE \E p \in SamplePositions(BufLen(replay_buffer), config.batch_size),
               g \in GradSteps :
               \E batch \in {BatchAt(replay_buffer, p)} :
                   IF ~CanIndexActions(action_dim, batch)
                   THEN TrainStepRaises("IndexError")
                   ELSE \E loss \in {BatchLoss(policy_net, target_net,
                                                config, batch)} :
                            TrainOnBatch(loss, g)

\* DQNAgent.save
Save(path) ==
    /\ disk' = Checkpoint
    /\ saved' = [valid |-> TRUE, agent |-> Agent]
    /\ op' = Called("save", path)
    /\ ret' = RetNone
    /\ UNCHANGED <<agentVars, pushed, constructed, budget>>

\* DQNAgent.load
Load(path) ==
    LET checkpoint == FileAt(path)
    IN  /\ op' = Called("load", path)
        /\ UNCHANGED <<disk, pushed, saved, constructed, budget>>
        /\ UNCHANGED <<config, state_dim, action_dim, replay_buffer, losses,
                       rewards_history, epsilon_history>>
        /\ IF checkpoint.kind = "absent"
           THEN /\ ret' = Raised("FileNotFoundError")
                /\ UNCHANGED <<policy_net, target_net, optimizer, epsilon,
                               training_steps, episode_count>>
           ELSE IF checkpoint.kind = "corrupt"
           THEN /\ ret' = Raised("UnpicklingError")
                /\ UNCHANGED <<policy_net, target_net, optimizer, epsilon,
                               training_steps, episode_count>>
           ELSE IF StateDictErrors(policy_net, checkpoint.policy_net)
           THEN /\ ret' = Raised("RuntimeError")
                /\ policy_net' = LoadStateDict(policy_net, checkpoint.policy_net)
                /\ UNCHANGED <<target_net, optimizer, epsilon,
                               training_steps, episode_count>>
           ELSE IF StateDictErrors(target_net, checkpoint.target_net)
           THEN /\ ret' = Raised("RuntimeError")
                /\ policy_net' = LoadStateDict(policy_net, checkpoint.policy_net)
                /\ target_net' = LoadStateDict(target_net, checkpoint.target_net)
                /\ UNCHANGED <<optimizer, epsilon, training_steps,
                               episode_count>>
           ELSE IF OptimizerErrors(optimizer, checkpoint.optimizer)
           THEN /\ ret' = Raised("ValueError")
                /\ policy_net' = LoadStateDict(policy_net, checkpoint.policy_net)
                /\ target_net' = LoadStateDict(target_net, checkpoint.target_net)
                /\ UNCHANGED <<optimizer, epsilon, training_steps,
                               episode_count>>
           ELSE /\ policy_net' = LoadStateDict(policy_net, checkpoint.policy_net)
                /\ target_net' = LoadStateDict(target_net, checkpoint.target_net)
                /\ optimizer' = checkpoint.optimizer
                /\ epsilon' = checkpoint.epsilon
                /\ training_steps' = checkpoint.training_steps
                /\ episode_count' = checkpoint.episode_count
                /\ ret' = RetNone

\* torch.save stopped midway (the process is killed, the disk is full): the
\* file is opened at path itself, so it is the old file if the stop came
\* before the open and a truncated archive, which torch.load cannot unpickle,
\* after it
SaveInterrupted(path) ==
    /\ disk' \in {disk, CorruptFile}
    /\ op' = Called("save", path)
    /\ ret' = Raised("Interrupted")
    /\ UNCHANGED <<agentVars, pushed, saved, constructed>>
    /\ UNCHANGED budget

-----------------------------------------------------------------------------
(* Operations that only read the agent *)

\* an operation called with arguments the claims refer to
CalledWith(name, args) == [name |-> name, path |-> "", args |-> args]

RetAction(a) == [kind |-> "action", val |-> a, err |-> ""]

RetMetrics(m) == [kind |-> "metrics", val |-> m, err |-> ""]

RetBatch(b) == [kind |-> "batch", val |-> b, err |-> ""]

\* the values random.random() returns: floats of [0, 1)
RandomDraws == {0, Scale - 1}

\* (mutant) exploration also when not training
ExploresAlways(training, u, eps) == u < eps

\* training and random.random() < self.epsilon
Explores(training, u, eps) == training /\ u < eps

\* DQNAgent.select_action, for the draws u of random.random() and r of
\* random.randrange(self.action_dim)
SelectAction(state, training, u, r) ==
    /\ op' = CalledWith("select_action",
                        [state |-> state, training |-> training])
    /\ ret' = RetAction(IF Explores(training, u, epsilon) THEN r
                        ELSE Argmax(QValues(policy_net, config, state)))
    /\ UNCHANGED <<agentVars, disk, pushed, saved, constructed, budget>>

RetQValues(q) == [kind |-> "q_values", val |-> q, err |-> ""]

\* (mutant) the Q-values of the target network
GetQValuesOfTarget(state) ==
    /\ op' = CalledWith("get_q_values", [state |-> state])
    /\ ret' = RetQValues(QValues(target_net, config, state))
    /\ UNCHANGED <<agentVars, disk, pushed, saved, constructed, budget>>

\* DQNAgent.get_q_values
GetQValues(state) ==
    /\ op' = CalledWith("get_q_values", [state |-> state])
    /\ ret' = RetQValues(QValues(policy_net, config, state))
    /\ UNCHANGED <<agentVars, disk, pushed, saved, constructed, budget>>

\* the slice [-100:] of a history
TrailingWindow == 100

Trailing(s) ==
    IF Len(s) <= TrailingWindow THEN s
    ELSE SubSeq(s, Len(s) - TrailingWindow + 1, Len(s))

\* Python's max(list): the first item, replaced by each later greater one
RECURSIVE PyMaxList(_)
PyMaxList(s) ==
    IF Len(s) = 1 THEN s[1]
    ELSE PyMax(PyMaxList(SubSeq(s, 1, Len(s) - 1)), s[Len(s)])

\* the keys of the dict get_metrics returns
MetricKeys(ls, rs) ==
    {"training_steps", "episode_count", "epsilon", "buffer_size"}
    \cup (IF ls # <<>> THEN {"avg_loss"} ELSE {})
    \cup (IF rs # <<>> THEN {"avg_reward", "best_reward"} ELSE {})

\* the dict get_metrics returns
Metrics ==
    [k \in MetricKeys(losses, rewards_history) |->
        CASE k = "training_steps" -> training_steps
          [] k = "episode_count" -> episode_count
          [] k = "epsilon" -> epsilon
          [] k = "buffer_size" -> BufLen(replay_buffer)
          [] k = "avg_loss" -> FMean(Trailing(losses))
          [] k = "avg_reward" -> FMean(Trailing(rewards_history))
          [] k = "best_reward" -> PyMaxList(rewards_history)]

\* DQNAgent.get_metrics
GetMetrics ==
    /\ op' = Called("get_metrics", "")
    /\ ret' = RetMetrics(Metrics)
    /\ UNCHANGED <<agentVars, disk, pushed, saved, constructed, budget>>

\* the five arrays sample returns for the batch random.sample drew; dones
\* become the floats 1.0 and 0.0
SampleArrays(batch) ==
    [states |-> [i \in 1..Len(batch) |-> batch[i].state],
     actions |-> [i \in 1..Len(batch) |-> batch[i].action],
     rewards |-> [i \in 1..Len(batch) |-> batch[i].reward],
     next_states |-> [i \in 1..Len(batch) |-> batch[i].next_state],
     dones |-> [i \in 1..Len(batch) |-> IF batch[i].done THEN Scale ELSE 0]]

\* (mutant) a sample larger than the buffer returns the whole buffer
SampleReturnsAll(batch_size) ==
    /\ op' = CalledWith("sample", [batch_size |-> batch_size])
    /\ ret' = RetBatch(SampleArrays(replay_buffer.buffer))
    /\ UNCHANGED <<agentVars, disk, pushed, saved, constructed, budget>>

\* sample raising the ValueError of random.sample or of the unpacking
SampleRaises(batch_size) ==
    /\ op' = CalledWith("sample", [batch_size |-> batch_size])
    /\ ret' = Raised("ValueError")
    /\ UNCHANGED <<agentVars, disk, pushed, saved, constructed, budget>>

\* ReplayBuffer.sample, called on the buffer of the agent
Sample(batch_size) ==
    IF SampleFails(BufLen(replay_buffer), batch_size)
    THEN SampleRaises(batch_size)
    ELSE IF batch_size = 0
    THEN \* zip(*[]) yields nothing to unpack into the five names
         /\ op' = CalledWith("sample", [batch_size |-> batch_size])
         /\ ret' = Raised("ValueError")
         /\ UNCHANGED <<agentVars, disk, pushed, saved, constructed, budget>>
    ELSE \E p \in SamplePositions(BufLen(replay_buffer), batch_size) :
            /\ op' = CalledWith("sample", [batch_size |-> batch_size])
            /\ ret' = RetBatch(SampleArrays(BatchAt(replay_buffer, p)))
            /\ UNCHANGED <<agentVars, disk, pushed, saved, constructed,
                           budget>>

-----------------------------------------------------------------------------
(* Inputs *)

\* the arguments of one constructor call
Ctor(cfg, D, A, seed) == [cfg |-> cfg, D |-> D, A |-> A, seed |-> seed]

\* a valid configuration: batch 1, capacity 2, epsilon 1.0 -> 1/Scale by
\* (Scale-1)/Scale, target update each step with tau = 1/Scale
BaseConfig ==
    DQNConfig(<<1>>, TRUE, Scale - 1, 1, 2, Scale, 1, Scale - 1, 1, 1, 1)

\* batch_size, buffer_size and min_buffer_size vary
BufferConfigs ==
    {[BaseConfig EXCEPT !.batch_size = b, !.buffer_size = c,
                        !.min_buffer_size = m] :
        b \in 0..2, c \in 0..2, m \in 0..2}

\* epsilon_start, epsilon_end and epsilon_decay vary
EpsilonConfigs ==
    {[BaseConfig EXCEPT !.epsilon_start = s, !.epsilon_end = e,
                        !.epsilon_decay = d] :
        s \in {0, Scale \div 2, Scale}, e \in {0, 1, Scale},
        d \in {Scale - 1, Scale, Scale + 1}}

\* exploration schedules with 0 < epsilon_decay < 1 and
\* 0 < epsilon_end <= epsilon_start
DecayConfigs ==
    {[BaseConfig EXCEPT !.epsilon_start = s, !.epsilon_end = e,
                        !.epsilon_decay = d] :
        s \in {Scale \div 2, Scale}, e \in {1, Scale \div 2, Scale},
        d \in 1..(Scale - 1)}

\* tau and target_update_freq vary
TargetConfigs ==
    {[BaseConfig EXCEPT !.tau = t, !.target_update_freq = f] :
        t \in {0, 1, Scale, Scale + 1}, f \in 0..2}

\* state vectors of dimension D
Ones(D) == [i \in 1..D |-> Scale]

Zeros(D) == [i \in 1..D |-> 0]

\* the transitions the environment supplies
FirstTransition(D) == Transition(Ones(D), 0, Scale, Ones(D), FALSE)

TransitionPool(D, A) ==
    {FirstTransition(D),
     Transition(Ones(D), IF A > 1 THEN A - 1 ELSE 0, 0, Zeros(D), TRUE)}

\* a transition whose reward is not a number
NaNTransition(D) == Transition(Ones(D), 0, NaN, Ones(D), FALSE)

\* the transitions and the episode rewards of an environment, by its kind:
\* 1 supplies one transition, 2 two, 3 also one whose reward is not a number,
\* and 4 one transition and episodes of two different rewards
TransitionsOf(pool, D, A) ==
    IF pool = 2 THEN TransitionPool(D, A)
    ELSE IF pool = 3 THEN TransitionPool(D, A) \cup {NaNTransition(D)}
    ELSE {FirstTransition(D)}

RewardsOf(pool) == IF pool = 4 THEN {-Scale, Scale} ELSE {Scale}

\* what the environment does with an agent at most
Budget(pushes, steps, episodes, pool) ==
    [pushes |-> pushes, steps |-> steps, episodes |-> episodes, pool |-> pool]

-----------------------------------------------------------------------------
(* Training: one agent, store_transition and train_step *)

\* the buffer parameters vary, and dimensions and a batch size no agent
\* should have; the environment supplies two different transitions
BufferCtors ==
    {Ctor(c, 1, 2, 1) : c \in BufferConfigs}
    \cup {Ctor(BaseConfig, 1, 0, 1), Ctor(BaseConfig, 0, 2, 1),
          Ctor([BaseConfig EXCEPT !.batch_size = -1, !.min_buffer_size = 0],
               1, 2, 1)}

\* the exploration and target parameters vary; one transition is enough
ScheduleCtors == {Ctor(c, 1, 2, 1) : c \in EpsilonConfigs \cup TargetConfigs}

InitTrain ==
    \/ InitWith(BufferCtors, Budget(MaxPush, MaxSteps, 0, 2))
    \/ InitWith(ScheduleCtors, Budget(MaxPush, MaxSteps, 0, 1))

DoStore ==
    /\ Len(pushed) < budget.pushes
    /\ \E t \in TransitionsOf(budget.pool, state_dim, action_dim) :
           StoreTransition(t)
    /\ UNCHANGED drivers

DoTrainStep ==
    /\ Len(losses) < budget.steps
    /\ TrainStep
    /\ UNCHANGED drivers

NextTrain == DoStore \/ DoTrainStep

SpecTrain == InitTrain /\ [][NextTrain]_vars

-----------------------------------------------------------------------------
(* The whole life of an agent: training, episodes, save, load, and a second
   agent constructed in the place of the first *)

InitCtors == {Ctor(BaseConfig, 1, 2, 1)}

\* the constructor calls that follow: the same arguments with other random
\* weights, another architecture, other dimensions, another configuration,
\* and arguments torch refuses
LaterCtors ==
    {Ctor(BaseConfig, 1, 2, 2),
     Ctor([BaseConfig EXCEPT !.hidden_sizes = <<2>>], 1, 2, 1),
     Ctor([BaseConfig EXCEPT !.hidden_sizes = <<1, 1>>], 1, 2, 1),
     Ctor([BaseConfig EXCEPT !.dueling = FALSE], 1, 2, 1),
     Ctor(BaseConfig, 2, 2, 1),
     Ctor(BaseConfig, 1, 3, 1),
     Ctor([BaseConfig EXCEPT !.epsilon_start = Scale \div 2,
                             !.epsilon_end = Scale \div 2], 1, 2, 2),
     Ctor(BaseConfig, -1, 2, 1)}

Init == InitWith(InitCtors, Budget(LifePush, LifeSteps, LifeEpisodes, 1))

DoEndEpisode ==
    /\ Len(rewards_history) < budget.episodes
    /\ \E r \in RewardsOf(budget.pool) : EndEpisode(r)
    /\ UNCHANGED drivers

DoSave == Save("agent.pt") /\ UNCHANGED drivers

DoLoad == (\E path \in Paths : Load(path)) /\ UNCHANGED drivers

\* the model follows two agents: the first, and one constructed in its place
DoConstruct ==
    /\ constructed = 1
    /\ \E c \in LaterCtors : Construct(c.cfg, c.D, c.A, c.seed)
    /\ UNCHANGED drivers

Next ==
    \/ DoStore
    \/ DoTrainStep
    \/ DoEndEpisode
    \/ DoSave
    \/ DoLoad
    \/ DoConstruct

Spec == Init /\ [][Next]_vars

-----------------------------------------------------------------------------
(* Use: the buffer of one agent is sampled and its actions are queried while
   it trains, with rewards that are not numbers among the inputs *)

InitUse == InitWith(InitCtors, Budget(UsePush, UseSteps, 0, 3))

\* the states get_q_values and select_action are probed with
ProbeStates == {Ones(state_dim), Zeros(state_dim)}

DoSelectAction ==
    /\ \E x \in ProbeStates, training \in BOOLEAN, u \in RandomDraws,
          r \in 0..(action_dim - 1) :
           SelectAction(x, training, u, r)
    /\ UNCHANGED drivers

\* batch sizes from a negative one to one above the capacity
DoSample ==
    /\ \E k \in (-1)..(config.buffer_size + 1) : Sample(k)
    /\ UNCHANGED drivers

NextUse ==
    \/ DoStore
    \/ DoTrainStep
    \/ DoSelectAction
    \/ DoSample

SpecUse == InitUse /\ [][NextUse]_vars

-----------------------------------------------------------------------------
(* Metrics: one agent trains, finishes episodes of different rewards, and its
   metrics are read and its actions queried *)

InitMetrics ==
    InitWith(InitCtors, Budget(LifePush, LifeSteps, MetricsEpisodes, 4))

DoGetMetrics == GetMetrics /\ UNCHANGED drivers

NextMetrics ==
    \/ DoStore
    \/ DoTrainStep
    \/ DoEndEpisode
    \/ DoGetMetrics
    \/ DoSelectAction

SpecMetrics == InitMetrics /\ [][NextMetrics]_vars

(* Race: two drivers, threads of one interpreter, call train_step of one
   agent at the same time.  A thread can be switched out between any two
   statements and between the load and the store of an augmented assignment;
   the tensor updates of one statement are taken as one step.  The drivers
   either call as they come or serialize their calls with one mutex. *)

Drivers == {1, 2}

\* a driver between two calls
IdleDriver == [pc |-> "idle", calls |-> 0, loss |-> 0, ts |-> 0, eps |-> 0]

\* the drivers at their start: whether they take a mutex around each call,
\* who holds it, the train_step calls that trained, the soft updates applied
StartedDrivers(mode) ==
    [mode |-> mode, lock |-> 0, done |-> 0, updates |-> 0,
     th |-> [d \in Drivers |-> IdleDriver]]

StartDrivers(mode) ==
    /\ drivers = NoDrivers
    /\ drivers' = StartedDrivers(mode)
    /\ UNCHANGED <<agentVars, disk, op, ret, pushed, saved, constructed,
                   budget>>

\* what a step of driver d inside train_step leaves alone
DriverFrame ==
    UNCHANGED <<config, state_dim, action_dim, replay_buffer, episode_count,
                rewards_history, disk, pushed, saved, constructed, budget>>

\* train_step up to the loss: the guard, the sample, the forward passes
DriverEnter(d) ==
    /\ drivers # NoDrivers
    /\ drivers.th[d].pc = "idle"
    /\ drivers.th[d].calls < RaceCalls
    /\ drivers.mode = "locked" => drivers.lock = 0
    /\ DriverFrame
    /\ UNCHANGED <<policy_net, target_net, optimizer, epsilon, training_steps,
                   losses, epsilon_history>>
    /\ IF IsCold(replay_buffer, config)
       THEN /\ drivers' = [drivers EXCEPT !.th[d].calls = @ + 1]
            /\ op' = Called("train_step", "")
            /\ ret' = RetNone
       ELSE \E p \in SamplePositions(BufLen(replay_buffer), config.batch_size) :
               \E loss \in {BatchLoss(policy_net, target_net, config,
                                      BatchAt(replay_buffer, p))} :
                  /\ drivers' =
                        [drivers EXCEPT
                            !.th[d].pc = "optimize",
                            !.th[d].loss = loss,
                            !.lock = IF drivers.mode = "locked" THEN d ELSE 0]
                  /\ UNCHANGED <<op, ret>>

\* zero_grad, backward, clip_grad_norm_, optimizer.step
DriverOptimize(d) ==
    /\ drivers # NoDrivers
    /\ drivers.th[d].pc = "optimize"
    /\ \E g \in GradSteps :
          /\ policy_net' = OptimizerStepNet(policy_net, drivers.th[d].loss, g)
          /\ optimizer' = OptimizerStepState(optimizer, drivers.th[d].loss, g)
    /\ drivers' = [drivers EXCEPT !.th[d].pc = "load_steps"]
    /\ DriverFrame
    /\ UNCHANGED <<target_net, epsilon, training_steps, losses,
                   epsilon_history, op, ret>>

\* self.training_steps += 1: the load
DriverLoadSteps(d) ==
    /\ drivers # NoDrivers
    /\ drivers.th[d].pc = "load_steps"
    /\ drivers' = [drivers EXCEPT !.th[d].pc = "store_steps",
                                  !.th[d].ts = training_steps]
    /\ DriverFrame
    /\ UNCHANGED <<policy_net, target_net, optimizer, epsilon, training_steps,
                   losses, epsilon_history, op, ret>>

\* self.training_steps += 1: the store; self.losses.append
DriverStoreSteps(d) ==
    /\ drivers # NoDrivers
    /\ drivers.th[d].pc = "store_steps"
    /\ training_steps' = drivers.th[d].ts + 1
    /\ losses' = Append(losses, drivers.th[d].loss)
    /\ drivers' = [drivers EXCEPT !.th[d].pc = "update_target"]
    /\ DriverFrame
    /\ UNCHANGED <<policy_net, target_net, optimizer, epsilon,
                   epsilon_history, op, ret>>

\* if self.training_steps % target_update_freq == 0: _soft_update_target()
DriverUpdateTarget(d) ==
    /\ drivers # NoDrivers
    /\ drivers.th[d].pc = "update_target"
    /\ IF TargetUpdateDue(training_steps, config.target_update_freq)
       THEN /\ target_net' = SoftUpdateTarget(config.tau, target_net, policy_net)
            /\ drivers' = [drivers EXCEPT !.th[d].pc = "load_epsilon",
                                          !.updates = @ + 1]
       ELSE /\ target_net' = target_net
            /\ drivers' = [drivers EXCEPT !.th[d].pc = "load_epsilon"]
    /\ DriverFrame
    /\ UNCHANGED <<policy_net, optimizer, epsilon, training_steps, losses,
                   epsilon_history, op, ret>>

\* self.epsilon = max(epsilon_end, self.epsilon * epsilon_decay): the load
DriverLoadEpsilon(d) ==
    /\ drivers # NoDrivers
    /\ drivers.th[d].pc = "load_epsilon"
    /\ drivers' = [drivers EXCEPT !.th[d].pc = "store_epsilon",
                                  !.th[d].eps = epsilon]
    /\ DriverFrame
    /\ UNCHANGED <<policy_net, target_net, optimizer, epsilon, training_steps,
                   losses, epsilon_history, op, ret>>

\* the store of self.epsilon, epsilon_history.append and the return
DriverStoreEpsilon(d) ==
    /\ drivers # NoDrivers
    /\ drivers.th[d].pc = "store_epsilon"
    /\ epsilon' = DecayEpsilon(drivers.th[d].eps, config)
    /\ epsilon_history' = Append(epsilon_history, epsilon')
    /\ drivers' = [drivers EXCEPT !.th[d].pc = "idle",
                                  !.th[d].calls = @ + 1,
                                  !.done = @ + 1,
                                  !.lock = 0]
    /\ op' = Called("train_step", "")
    /\ ret' = RetLoss(drivers.th[d].loss)
    /\ DriverFrame
    /\ UNCHANGED <<policy_net, target_net, optimizer, training_steps, losses>>

InitRace == InitWith(InitCtors, Budget(LifePush, 0, 0, 1))

DoStartDrivers == \E mode \in {"free", "locked"} : StartDrivers(mode)

DoDriverEnter == \E d \in Drivers : DriverEnter(d)

DoDriverOptimize == \E d \in Drivers : DriverOptimize(d)

DoDriverLoadSteps == \E d \in Drivers : DriverLoadSteps(d)

DoDriverStoreSteps == \E d \in Drivers : DriverStoreSteps(d)

DoDriverUpdateTarget == \E d \in Drivers : DriverUpdateTarget(d)

DoDriverLoadEpsilon == \E d \in Drivers : DriverLoadEpsilon(d)

DoDriverStoreEpsilon == \E d \in Drivers : DriverStoreEpsilon(d)

\* store_transition of a driver: deque.append is one step of the interpreter;
\* serialized drivers push only while no train_step holds the mutex
DoDriverStore ==
    /\ drivers.mode = "locked" => drivers.lock = 0
    /\ DoStore

NextRace ==
    \/ DoDriverStore
    \/ DoStartDrivers
    \/ DoDriverEnter
    \/ DoDriverOptimize
    \/ DoDriverLoadSteps
    \/ DoDriverStoreSteps
    \/ DoDriverUpdateTarget
    \/ DoDriverLoadEpsilon
    \/ DoDriverStoreEpsilon

SpecRace == InitRace /\ [][NextRace]_vars

(* Decay: an agent that is trained again and again.  The driver's loop calls
   store_transition and train_step as long as it runs, so neither call waits
   forever; epsilon moves on a grid of Scale values, so Scale training steps
   are as many as a decaying epsilon can take on its way down. *)

DecayCtors == {Ctor(c, 1, 2, 1) : c \in DecayConfigs}

InitDecay == InitWith(DecayCtors, Budget(LifePush, Scale, 0, 1))

NextDecay == DoStore \/ DoTrainStep

\* a train_step would train: the agent is warm and the driver has calls left
TrainStepPending ==
    /\ Len(replay_buffer.buffer) >= config.min_buffer_size
    /\ Len(losses) < budget.steps

\* weak fairness of the train_step calls of a warm agent: the driver does not
\* stop calling train_step while one would train (the condition under which
\* one would is written out as a state predicate)
FairTrainStep == []<>(~TrainStepPending) \/ []<><<DoTrainStep>>_vars

SpecDecay ==
    /\ InitDecay
    /\ [][NextDecay]_vars
    /\ WF_vars(DoStore)
    /\ FairTrainStep

(* Reading: an agent that is trained, asked for actions, Q-values and
   metrics, and saved *)

InitRead == InitWith(InitCtors, Budget(LifePush, MaxSteps, 0, 1))

DoGetQValues ==
    /\ \E x \in ProbeStates : GetQValues(x)
    /\ UNCHANGED drivers

NextRead ==
    \/ DoStore
    \/ DoTrainStep
    \/ DoSelectAction
    \/ DoGetQValues
    \/ DoGetMetrics
    \/ DoSave

SpecRead == InitRead /\ [][NextRead]_vars

-----------------------------------------------------------------------------
(* Crash: one agent whose save() may be stopped midway *)

InitCrash == InitWith(InitCtors, Budget(LifePush, LifeSteps, 0, 1))

DoSaveInterrupted == SaveInterrupted("agent.pt") /\ UNCHANGED drivers

NextCrash ==
    \/ DoStore
    \/ DoTrainStep
    \/ DoSave
    \/ DoSaveInterrupted
    \/ DoLoad

SpecCrash == InitCrash /\ [][NextCrash]_vars

-----------------------------------------------------------------------------
(* Claims *)

TrainStepRan == op.name = "train_step"

Trained == op.name = "train_step" /\ ret.kind = "loss"

LoadRan == op.name = "load"

LoadReturned == op.name = "load" /\ ret.kind = "None"

\* the agent in hand has the configuration and dimensions of the saved one
LikeSaved ==
    /\ saved.valid
    /\ config = saved.agent.config
    /\ state_dim = saved.agent.state_dim
    /\ action_dim = saved.agent.action_dim

\* C1: a train_step called with fewer than min_buffer_size transitions stored
\* returns None and changes no weight, no optimizer state, no counter, not
\* epsilon, no history and not the buffer.
C1_WarmupNoOp ==
    [][(op'.name = "train_step"
        /\ Len(replay_buffer.buffer) < config.min_buffer_size)
       => (/\ ret' = RetNone
           /\ UNCHANGED <<policy_net, target_net, optimizer, training_steps,
                          episode_count, epsilon, losses, epsilon_history,
                          rewards_history, replay_buffer>>)]_vars

\* a cold train_step on a buffer that already holds a transition
C1_Witness ==
    /\ TrainStepRan
    /\ ret = RetNone
    /\ Len(replay_buffer.buffer) > 0
    /\ Len(replay_buffer.buffer) < config.min_buffer_size

\* C2: after N pushes into a buffer of capacity C the buffer holds min(N, C)
\* transitions, at most C, and they are the last min(N, C) pushed, in the
\* order pushed: a push at capacity drops exactly the oldest one.
C2_BufferFifo ==
    LET n == Len(pushed)
        k == Min(n, config.buffer_size)
    IN  /\ Len(replay_buffer.buffer) = k
        /\ Len(replay_buffer.buffer) <= config.buffer_size
        /\ replay_buffer.buffer = SubSeq(pushed, n - k + 1, n)

\* more pushes than the capacity, of transitions that differ
C2_Witness ==
    /\ config.buffer_size = 2
    /\ Len(pushed) = 3
    /\ pushed[1] # pushed[2]
    /\ pushed[2] # pushed[3]
    /\ Len(replay_buffer.buffer) = 2

\* C3 (as claimed): for every agent the constructor accepts, the epsilon
\* values epsilon_start = e_0, e_1, ..., e_N left by successive train_step
\* calls never increase and never drop below epsilon_end.
C3_EpsilonNeverIncreases ==
    [][(op'.name = "train_step" /\ ret'.kind = "loss")
       => (/\ epsilon' <= epsilon
           /\ epsilon' >= config.epsilon_end
           /\ epsilon <= config.epsilon_start)]_vars

\* C4 (as claimed): with tau = 1.0 every train_step that trains leaves the
\* target weights equal to the policy weights.
C4_TargetEqualsPolicyEveryStep ==
    (Trained /\ config.tau = Scale) => target_net = policy_net

\* C4 (amended): with tau = 1.0 a train_step that trains and brings
\* training_steps to a multiple of target_update_freq leaves the target
\* weights equal to the policy weights as updated by that step.
C4_TargetEqualsPolicyWhenDue ==
    (/\ Trained
     /\ config.tau = Scale
     /\ training_steps % config.target_update_freq = 0)
    => target_net = policy_net

\* the second of two training steps under target_update_freq = 2, tau = 1.0
C4_Witness ==
    /\ Trained
    /\ config.tau = Scale
    /\ config.target_update_freq = 2
    /\ training_steps = 2
    /\ target_net = policy_net
    /\ policy_net # DuelingQNetwork(state_dim, action_dim,
                                    config.hidden_sizes, config.dueling, 1)

\* C5: a load of the saved checkpoint by an agent configured like the one
\* that saved gives it the policy and target weights, epsilon, training_steps
\* and episode_count the saver had at the save, hence the same Q-values on
\* every probe state.
C5_SaveLoadRoundTrip ==
    (LoadReturned /\ LikeSaved)
    => (/\ policy_net = saved.agent.policy_net
        /\ target_net = saved.agent.target_net
        /\ epsilon = saved.agent.epsilon
        /\ training_steps = saved.agent.training_steps
        /\ episode_count = saved.agent.episode_count
        /\ \A x \in ProbeStates :
              QValues(policy_net, config, x)
                = QValues(saved.agent.policy_net, saved.agent.config, x))

\* the second agent, constructed with other random weights, has loaded what
\* the first saved after a training step and an episode
C5_Witness ==
    /\ LoadReturned
    /\ LikeSaved
    /\ constructed = 2
    /\ saved.agent.training_steps = 1
    /\ saved.agent.episode_count = 1
    /\ saved.agent.policy_net # saved.agent.target_net
    /\ policy_net = saved.agent.policy_net

\* C6 (as claimed): after a load of the saved checkpoint by an agent
\* configured like the saver, a train_step that would have trained on the
\* saver trains on the loader: the loader is warm if the saver was.
C6_ResumesWarm ==
    (LoadReturned /\ LikeSaved
     /\ Len(saved.agent.replay_buffer.buffer)
          >= saved.agent.config.min_buffer_size)
    => Len(replay_buffer.buffer) >= config.min_buffer_size

\* C7 (as claimed): no agent exists whose min_buffer_size is below its
\* batch_size, whose state or action dimension is not positive, or whose
\* tau is outside (0, 1].
C7_ConfigurationValidated ==
    /\ config.min_buffer_size >= config.batch_size
    /\ state_dim > 0
    /\ action_dim > 0
    /\ config.tau > 0
    /\ config.tau <= Scale

\* C8: with min_buffer_size >= batch_size no train_step fails for want of
\* samples: sample(batch_size) is only reached with len(buffer) >= batch_size.
C8_NeverInsufficientSamples ==
    config.min_buffer_size >= config.batch_size
    => ~(TrainStepRan /\ ret = Raised("InsufficientSamples"))

\* a training step on a buffer holding exactly batch_size = min_buffer_size
C8_Witness ==
    /\ Trained
    /\ config.batch_size = 2
    /\ config.min_buffer_size = 2
    /\ Len(replay_buffer.buffer) = 2

\* C9: a load raises when the file is missing or corrupt or when the
\* checkpoint was saved by an agent of another state or action dimension;
\* and no tensor of the agent ever has another shape than its architecture
\* gives it.
C9_LoadFailsFast ==
    /\ (LoadRan
        /\ (\/ op.path = "garbage.pt"
            \/ disk.kind = "absent"
            \/ saved.agent.state_dim # state_dim
            \/ saved.agent.action_dim # action_dim))
       => ret.kind = "raised"
    /\ \A net \in {policy_net, target_net} :
          /\ DOMAIN net = NetKeys(config.hidden_sizes, config.dueling)
          /\ \A k \in DOMAIN net :
                /\ net[k].shape = LayerShape(state_dim, action_dim,
                                             config.hidden_sizes, k)
                /\ Len(net[k].data) = net[k].shape[1]

\* a load of a checkpoint saved with another state dimension
C9_Witness ==
    /\ LoadRan
    /\ op.path = "agent.pt"
    /\ disk.kind = "checkpoint"
    /\ saved.agent.state_dim # state_dim
    /\ saved.agent.action_dim = action_dim
    /\ saved.agent.config = config
    /\ ret.kind = "raised"

\* C10 (as claimed): a load of a checkpoint saved with the same state and
\* action dimensions succeeds whatever hidden_sizes and dueling the loading
\* agent was constructed with, and leaves it with the saved architecture.
C10_LoadRebuildsArchitecture ==
    (/\ LoadRan
     /\ op.path = "agent.pt"
     /\ disk.kind = "checkpoint"
     /\ saved.agent.state_dim = state_dim
     /\ saved.agent.action_dim = action_dim)
    => (/\ ret.kind = "None"
        /\ config.hidden_sizes = disk.config.hidden_sizes
        /\ config.dueling = disk.config.dueling)

\* the artifact at the path is the complete checkpoint of the last save()
\* that returned
DiskIsSavedCheckpoint ==
    /\ saved.valid
    /\ disk.kind = "checkpoint"
    /\ disk.policy_net = saved.agent.policy_net
    /\ disk.target_net = saved.agent.target_net
    /\ disk.optimizer = saved.agent.optimizer
    /\ disk.epsilon = saved.agent.epsilon
    /\ disk.training_steps = saved.agent.training_steps
    /\ disk.episode_count = saved.agent.episode_count
    /\ disk.config = saved.agent.config

\* C11 (as claimed): at every point of a save(), stopped midway or not, the
\* artifact at the path is absent or is a complete checkpoint, the previous
\* one or the new one; a stopped save() never leaves anything else there.
C11_SaveAtomic == disk.kind = "absent" \/ DiskIsSavedCheckpoint

\* C12 (as claimed): a train_step whose batch loss is NaN skips the optimizer
\* step: the policy weights, the target weights and the optimizer state are
\* what they were before the call.
C12_NaNLossSkipsStep ==
    [][(op'.name = "train_step" /\ ret'.kind = "loss" /\ IsNaN(ret'.val))
       => (/\ policy_net' = policy_net
           /\ target_net' = target_net
           /\ optimizer' = optimizer)]_vars

C14_EpsilonInOwnRange ==
    config.epsilon_end <= epsilon /\ epsilon <= config.epsilon_start

SampleRan == op.name = "sample"

\* the five arrays b of a sample are those of k transitions at distinct
\* positions of the buffer, index i of each array from the same transition
AlignedDistinct(b, buffer, k) ==
    /\ Len(b.states) = k
    /\ Len(b.actions) = k
    /\ Len(b.rewards) = k
    /\ Len(b.next_states) = k
    /\ Len(b.dones) = k
    /\ \E p \in [1..k -> 1..Len(buffer)] :
          /\ \A i, j \in 1..k : i # j => p[i] # p[j]
          /\ \A i \in 1..k :
                /\ b.states[i] = buffer[p[i]].state
                /\ b.actions[i] = buffer[p[i]].action
                /\ b.rewards[i] = buffer[p[i]].reward
                /\ b.next_states[i] = buffer[p[i]].next_state
                /\ b.dones[i] = (IF buffer[p[i]].done THEN Scale ELSE 0)

\* C15 (as claimed): sample(batch_size) with len(buffer) >= batch_size
\* returns exactly batch_size transitions from distinct positions of the
\* buffer, as five index-aligned arrays.
C15_SampleReturnsBatch ==
    [][(op'.name = "sample"
        /\ Len(replay_buffer.buffer) >= op'.args.batch_size)
       => (/\ ret'.kind = "batch"
           /\ AlignedDistinct(ret'.val, replay_buffer.buffer,
                              op'.args.batch_size))]_vars

\* C15 (amended): sample(batch_size) with 1 <= batch_size <= len(buffer)
\* returns exactly batch_size transitions from distinct positions of the
\* buffer, as five index-aligned arrays; with batch_size <= 0 it raises; the
\* buffer is as it was in both cases.
C15_SampleReturnsPositiveBatch ==
    [][/\ (op'.name = "sample"
           /\ 1 <= op'.args.batch_size
           /\ op'.args.batch_size <= Len(replay_buffer.buffer))
          => (/\ ret'.kind = "batch"
              /\ AlignedDistinct(ret'.val, replay_buffer.buffer,
                                 op'.args.batch_size)
              /\ replay_buffer' = replay_buffer)
       /\ (op'.name = "sample" /\ op'.args.batch_size <= 0)
          => (ret'.kind = "raised" /\ replay_buffer' = replay_buffer)]_vars

\* a sample of two from a buffer of two different transitions, the newer first
C15_Witness ==
    /\ SampleRan
    /\ ret.kind = "batch"
    /\ op.args.batch_size = 2
    /\ replay_buffer.buffer[1] # replay_buffer.buffer[2]
    /\ ret.val.rewards = <<replay_buffer.buffer[2].reward,
                           replay_buffer.buffer[1].reward>>
    /\ ret.val.dones = <<Scale, 0>>

\* C16: sample(batch_size) with len(buffer) < batch_size raises (the
\* ValueError of random.sample for a sample larger than the population)
\* instead of returning a batch, and leaves the buffer as it was.
C16_SampleTooLargeRaises ==
    [][(op'.name = "sample"
        /\ Len(replay_buffer.buffer) < op'.args.batch_size)
       => (/\ ret'.kind = "raised"
           /\ ret'.err = "ValueError"
           /\ replay_buffer' = replay_buffer)]_vars

\* a sample of more transitions than a buffer that is not empty holds
C16_Witness ==
    /\ SampleRan
    /\ ret.kind = "raised"
    /\ Len(replay_buffer.buffer) > 0
    /\ op.args.batch_size > Len(replay_buffer.buffer)

\* C17: select_action(state, training=False) returns argmax_a Q_policy(state,
\* a), an action of maximal Q-value, whatever epsilon and the random draws
\* are, and changes nothing of the agent, so that a second call with the same
\* state and the same policy network returns the same action.
C17_GreedyWhenNotTraining ==
    [][(op'.name = "select_action" /\ ~op'.args.training)
       => \E q \in {QValues(policy_net, config, op'.args.state)} :
              /\ ret'.kind = "action"
              /\ ret'.val = Argmax(q)
              /\ ret'.val \in 0..(action_dim - 1)
              /\ (\A a \in 1..Len(q) : ~IsNaN(q[a]))
                 => \A a \in 1..Len(q) : q[a] <= q[ret'.val + 1]
              /\ UNCHANGED agentVars]_vars

\* a greedy call on a trained agent that still explores when training: the
\* second action, the one of the larger Q-value
C17_Witness ==
    /\ op.name = "select_action"
    /\ ~op.args.training
    /\ epsilon > 0
    /\ training_steps = 1
    /\ ret.val = 1
    /\ QValues(policy_net, config, op.args.state)[1]
         < QValues(policy_net, config, op.args.state)[2]

\* C18 (as claimed): in every state, that of a freshly constructed agent
\* included, get_metrics returns training_steps, episode_count, epsilon, the
\* buffer occupancy, the trailing average loss, the trailing average reward
\* and the best reward, which is the maximum of the rewards given to
\* end_episode so far.
C18_MetricsComplete ==
    op.name = "get_metrics"
    => (/\ DOMAIN ret.val = {"training_steps", "episode_count", "epsilon",
                             "buffer_size", "avg_loss", "avg_reward",
                             "best_reward"}
        /\ ret.val["training_steps"] = training_steps
        /\ ret.val["episode_count"] = episode_count
        /\ ret.val["epsilon"] = epsilon
        /\ ret.val["buffer_size"] = Len(replay_buffer.buffer)
        /\ \A i \in 1..Len(rewards_history) :
              rewards_history[i] <= ret.val["best_reward"]
        /\ \E i \in 1..Len(rewards_history) :
              rewards_history[i] = ret.val["best_reward"])

\* C19 (as claimed), for the fixed bound HistoryBound: the loss history and
\* the reward history never hold more than HistoryBound entries, however
\* many train_step and end_episode calls are made.
C19_HistoriesBounded ==
    /\ Len(losses) <= HistoryBound
    /\ Len(rewards_history) <= HistoryBound

\* the outcome of a train_step that trains is one of those computed for a
\* drawn batch and a gradient step from the buffer, the two networks, the
\* configuration, epsilon and training_steps: nothing of it is computed from
\* episode_count or the reward history
TrainedFromTrainingStateOnly ==
    \E p \in [1..config.batch_size -> 1..Len(replay_buffer.buffer)],
       g \in GradSteps :
        LET batch == [i \in 1..config.batch_size |-> replay_buffer.buffer[p[i]]]
            loss == BatchLoss(policy_net, target_net, config, batch)
            pnet == OptimizerStepNet(policy_net, loss, g)
        IN  /\ ret'.val = loss
            /\ policy_net' = pnet
            /\ target_net' =
                  IF (training_steps + 1) % config.target_update_freq = 0
                  THEN SoftUpdateTarget(config.tau, target_net, pnet)
                  ELSE target_net
            /\ epsilon' = DecayEpsilon(epsilon, config)
            /\ training_steps' = training_steps + 1

\* the action returned is the greedy one of the policy network or, when
\* training with a positive epsilon, any action
ActionFromPolicyAndEpsilonOnly ==
    ret'.val \in
        {Argmax(QValues(policy_net, config, op'.args.state))}
        \cup (IF op'.args.training /\ epsilon > 0
              THEN 0..(action_dim - 1) ELSE {})

\* C20: end_episode writes episode_count and the reward history and nothing
\* else of the agent, and neither select_action nor train_step computes
\* anything from these two: agents that differ only in them return the same
\* actions and, for the same batch, the same loss, weights, target, epsilon
\* and training_steps, and train_step and select_action leave the two as
\* they are.
C20_EndEpisodeMetricsOnly ==
    [][/\ op'.name = "end_episode"
          => UNCHANGED <<config, state_dim, action_dim, policy_net,
                         target_net, optimizer, replay_buffer, epsilon,
                         training_steps, losses, epsilon_history>>
       /\ op'.name \in {"train_step", "select_action"}
          => UNCHANGED <<episode_count, rewards_history>>
       /\ (op'.name = "train_step" /\ ret'.kind = "loss")
          => TrainedFromTrainingStateOnly
       /\ (op'.name = "train_step" /\ ret'.kind = "None")
          => UNCHANGED agentVars
       /\ op'.name = "select_action"
          => ActionFromPolicyAndEpsilonOnly]_vars

\* a train_step that trains on an agent that has finished two episodes of
\* different rewards
C20_Witness ==
    /\ Trained
    /\ episode_count = 2
    /\ Len(rewards_history) = 2
    /\ rewards_history[1] # rewards_history[2]
    /\ training_steps = 1

\* x lies between a and b, the ends excluded
StrictlyBetween(a, x, b) == (a < x /\ x < b) \/ (b < x /\ x < a)

\* x lies between a and b, the ends included
Between(a, x, b) == (a <= x /\ x <= b) \/ (b <= x /\ x <= a)

RECURSIVE EpsilonAfter(_)
EpsilonAfter(n) ==
    IF n = 0 THEN config.epsilon_start
    ELSE PyMax(config.epsilon_end, FMul(EpsilonAfter(n - 1), config.epsilon_decay))

\* no driver is inside train_step
DriversIdle == \A d \in Drivers : drivers.th[d].pc = "idle"

C23_DoneTargetIsReward ==
    \A i \in 1..BufLen(replay_buffer) :
        \E t \in {replay_buffer.buffer[i]} :
            t.done => TargetQ(policy_net, target_net, config, t) = t.reward

\* the value and advantage outputs of the policy network at state x
ValueAt(x) ==
    Stream(policy_net, "value_stream",
           Features(policy_net, Len(config.hidden_sizes) - 1, x))[1]

AdvantageAt(x) ==
    Stream(policy_net, "advantage_stream",
           Features(policy_net, Len(config.hidden_sizes) - 1, x))

\* constants added to every advantage output
Shifts == {-Scale, -1, 1, Scale}

\* C24: with dueling enabled and at least one action, at every state the
\* Q-value of every action is V + A(a) - mean(A), the mean of the Q-values
\* over the actions is exactly V, and the Q-values of advantages that are all
\* shifted by the same constant are exactly the same Q-values
C24_DuelingIdentityExact ==
    (config.dueling /\ action_dim > 0) =>
        \A x \in ProbeStates :
            \E V \in {ValueAt(x)}, A \in {AdvantageAt(x)},
               Q \in {QValues(policy_net, config, x)} :
                /\ \A a \in 1..action_dim :
                      Q[a] = FAdd(V, FSub(A[a], FMean(A)))
                /\ FMean(Q) = V
                /\ \A c \in Shifts :
                      DuelingCombine(<<V>>, [a \in 1..Len(A) |-> FAdd(A[a], c)])
                          = Q

\* C24 (amended): with dueling enabled and at least one action, at every
\* state the Q-value of every action is V + A(a) - mean(A) as computed; the
\* mean of the Q-values over the actions is V, and the Q-values of advantages
\* that are all shifted by the same constant are the same Q-values, each up
\* to the rounding of the mean (one unit of the last place)
C24_DuelingIdentityRounded ==
    (config.dueling /\ action_dim > 0) =>
        \A x \in ProbeStates :
            \E V \in {ValueAt(x)}, A \in {AdvantageAt(x)},
               Q \in {QValues(policy_net, config, x)} :
                /\ Len(Q) = action_dim
                /\ \A a \in 1..action_dim :
                      Q[a] = FAdd(V, FSub(A[a], FMean(A)))
                /\ Abs(FMean(Q) - V) <= 1
                /\ \A c \in Shifts :
                      \E R \in {DuelingCombine(<<V>>,
                                    [a \in 1..Len(A) |-> FAdd(A[a], c)])} :
                          \A a \in 1..action_dim : Abs(R[a] - Q[a]) <= 1

\* a dueling agent whose advantages differ and whose mean is rounded at some
\* state
C24_Witness ==
    /\ config.dueling
    /\ action_dim > 1
    /\ \E x \in ProbeStates :
          /\ FSum(AdvantageAt(x)) % action_dim # 0
          /\ \E a, b \in 1..action_dim : AdvantageAt(x)[a] # AdvantageAt(x)[b]

\* C25: every train_step called with len(buffer) >= min_buffer_size returns
\* a loss, increases training_steps by exactly 1, appends exactly one entry
\* to the loss history and decays epsilon exactly once
C25_WarmStepTrainsOnce ==
    [][(op'.name = "train_step"
        /\ Len(replay_buffer.buffer) >= config.min_buffer_size)
       => (/\ ret'.kind = "loss"
           /\ training_steps' = training_steps + 1
           /\ Len(losses') = Len(losses) + 1
           /\ epsilon' = PyMax(config.epsilon_end,
                               FMul(epsilon, config.epsilon_decay))
           /\ Len(epsilon_history') = Len(epsilon_history) + 1)]_vars

\* the target weights after the soft update of a training step: each is
\* tau * policy + (1 - tau) * target, the policy weight being the one the
\* optimizer step of the same call has left
SoftUpdated ==
    /\ DOMAIN target_net' = DOMAIN target_net
    /\ \A k \in DOMAIN target_net :
          /\ target_net'[k].shape = target_net[k].shape
          /\ \A r \in 1..Len(target_net[k].data) :
                target_net'[k].data[r] =
                    FAdd(FMul(config.tau, policy_net'[k].data[r]),
                         FMul(Scale - config.tau, target_net[k].data[r]))

\* what a call does to the target weights, load apart: equal to the policy
\* weights after construction, soft-updated by a train_step that trains and
\* whose incremented training_steps is a multiple of target_update_freq,
\* unchanged by any other train_step and by store_transition, end_episode
\* and save
TargetFrame ==
    /\ (op'.name = "__init__" /\ ret'.kind = "None")
          => target_net' = policy_net'
    /\ (op'.name = "__init__" /\ ret'.kind # "None")
          => target_net' = target_net
    /\ op'.name = "train_step"
          => IF ret'.kind = "loss"
                /\ training_steps' % config.target_update_freq = 0
             THEN SoftUpdated
             ELSE target_net' = target_net
    /\ op'.name \in {"store_transition", "end_episode", "save"}
          => target_net' = target_net

C27_WarmIsOneWay ==
    [][/\ Len(replay_buffer'.buffer) >= Len(replay_buffer.buffer)
       /\ (Len(replay_buffer.buffer) >= config.min_buffer_size
              => Len(replay_buffer'.buffer) >= config'.min_buffer_size)
       /\ op'.name = "train_step"
             => (Len(replay_buffer.buffer) >= config.min_buffer_size
                    <=> ret'.kind = "loss")]_vars

\* C28: a load that raises leaves the policy weights, the target weights, the
\* optimizer state, epsilon, training_steps and episode_count exactly as they
\* were before the call
C28_LoadAtomicOnFailure ==
    [][(op'.name = "load" /\ ret'.kind = "raised")
       => UNCHANGED <<policy_net, target_net, optimizer, epsilon,
                      training_steps, episode_count>>]_vars

\* 0 < epsilon_decay < 1 and 0 < epsilon_end <= epsilon_start
DecayingSchedule ==
    /\ 0 < config.epsilon_decay
    /\ config.epsilon_decay < Scale
    /\ 0 < config.epsilon_end
    /\ config.epsilon_end <= config.epsilon_start

\* the product epsilon * epsilon_decay is below epsilon for every epsilon
\* above the floor: so it is for doubles in the normal range, while on the
\* coarse grid of the model a product can round back to epsilon itself
ProductDecreases ==
    \A e \in (config.epsilon_end + 1)..config.epsilon_start :
        FMul(e, config.epsilon_decay) < e

C30_ReadOnly ==
    [][/\ op'.name \in {"get_q_values", "select_action", "get_metrics", "save"}
          => UNCHANGED <<config, state_dim, action_dim, policy_net,
                         target_net, optimizer, replay_buffer, epsilon,
                         training_steps, episode_count, losses,
                         rewards_history, epsilon_history>>
       /\ op'.name = "store_transition"
          => UNCHANGED <<config, state_dim, action_dim, policy_net,
                         target_net, optimizer, epsilon, training_steps,
                         episode_count, losses, rewards_history,
                         epsilon_history>>
       /\ op'.name = "get_q_values"
          => /\ ret'.kind = "q_values"
             /\ Len(ret'.val) = action_dim
             /\ ret'.val = Forward(policy_net, config.hidden_sizes,
                                   config.dueling, op'.args.state)
       /\ (op'.name = "select_action" /\ ~op'.args.training)
          => \E q \in {Forward(policy_net, config.hidden_sizes,
                               config.dueling, op'.args.state)} :
                /\ ret'.val \in 0..(action_dim - 1)
                /\ \A a \in 1..Len(q) : q[a] <= q[ret'.val + 1]
                /\ \A a \in 1..ret'.val : q[a] < q[ret'.val + 1]]_vars

\* get_q_values on a trained agent whose target network differs from its
\* policy network and whose two Q-values differ
C30_Witness ==
    /\ op.name = "get_q_values"
    /\ ret.kind = "q_values"
    /\ training_steps > 0
    /\ ret.val # QValues(target_net, config, op.args.state)
    /\ ret.val[1] # ret.val[2]

====
